---- MODULE Spec2Model ----
(***************************************************************************)
(* A model of the pothos-iio support layer (IIOSupport.hpp/.cpp): the      *)
(* Context -> Device -> Channel -> Buffer object graph over the libiio     *)
(* driver, the shared native context handle, the move-only Buffer, the     *)
(* trigger association, the attribute iterator, the attribute value        *)
(* round trip and the channel format computations.                         *)
(***************************************************************************)
EXTENDS Integers, Sequences, FiniteSets, Bags, TLC

\* ------------------------------------------------------------------ bounds
\* Device, Channel and Buffer objects the application holds at one time.
MaxObjs == 3
\* Devices the driver's context reports (iio_context_get_devices_count).
NumDevices == 2
\* Channels the driver reports per device (iio_device_get_channels_count).
NumChannels == 1
\* Mapped regions the driver hands out over a run (successful createBuffer calls).
MaxRegions == 2

\* nullptr: the value of a cleared handle.
Null == 0

Devices == 1..NumDevices
Regions == 1..MaxRegions

\* The device a native channel handle belongs to (iio_channel_get_device).
DeviceOfChannel(c) == ((c - 1) \div NumChannels) + 1

VARIABLES
    ctxObj,      \* the IIOContext singleton: "none", "alive", "destroyed"
    rawCtx,      \* the native iio_context: "unopened", "open", "destroyed"
    useCount,    \* use count of the shared_ptr<IIOContextRaw> control block
    ctxOpens,    \* calls of iio_create_local_context that returned a context
    ctxDestroys, \* calls of iio_context_destroy
    objs,        \* the bag of Device/Channel/Buffer objects the application holds
    region,      \* per native buffer: "free", "Created", "Populated", "Drained", "released"
    regionDev,   \* per native buffer: the device it was created for
    releases,    \* per native buffer: calls of iio_buffer_destroy
    trig,        \* the driver's trigger association, per device
    setTo,       \* per device: the trigger of the latest setTrigger the driver accepted
    crashed,     \* the process was aborted by a null-pointer access
    last         \* the last wrapper call and how it ended

lifeVars == <<ctxObj, rawCtx, useCount, ctxOpens, ctxDestroys, objs, region,
              regionDev, releases, trig, setTo, crashed, last>>

\* An object: its class, whether its ctx member holds the shared handle, and
\* its native handle (device, channel or buffer pointer).
Obj(kind, ctx, h) == [kind |-> kind, ctx |-> ctx, h |-> h]

\* A null IIODevice pointer, as an argument.
NullPtr == Obj("nullptr", FALSE, Null)

\* The record of a wrapper call: the operation, the error kind it raised
\* ("none" when it returned), the native handle it was called on, the handle
\* passed as its argument, the driver's return code, the handle of the object
\* it returned, and whether it read a field through a null pointer.
Call(op, err, self, arg, drv, ret, ub) ==
    [op |-> op, err |-> err, self |-> self, arg |-> arg, drv |-> drv,
     ret |-> ret, ub |-> ub]

NoCall == Call("none", "none", Null, Null, 0, Null, FALSE)

\* The driver's return codes: 0 on success, a negative errno on failure.
DrvCodes == {0, -1}

\* ------------------------------------------------- shared context handle

\* Copying the shared_ptr<IIOContextRaw> into a new Device, Channel or Buffer.
ShareCtxWeak(uc) == uc

ShareCtx(uc) == uc + 1

\* A copy of a holder's ctx member: a null shared_ptr copies to a null one.
CopyCtx(holds, uc) == IF holds THEN ShareCtx(uc) ELSE uc

RECURSIVE CopyCtxN(_, _, _)
CopyCtxN(holds, uc, n) ==
    IF n = 0 THEN uc ELSE CopyCtxN(holds, CopyCtx(holds, uc), n - 1)

\* Room left among the objects the application holds.
Room == MaxObjs - BagCardinality(objs)

Held == BagToSet(objs)

One(o) == SetToBag({o})

\* Destroying one holder of the shared_ptr, the use count being uc: the last
\* one runs ~IIOContextRaw, which calls iio_context_destroy.
DropCtx(holds, uc) ==
    IF holds
    THEN /\ useCount' = uc - 1
         /\ IF uc - 1 = 0
            THEN rawCtx' = "destroyed" /\ ctxDestroys' = ctxDestroys + 1
            ELSE UNCHANGED <<rawCtx, ctxDestroys>>
    ELSE /\ useCount' = uc
         /\ UNCHANGED <<rawCtx, ctxDestroys>>

\* ------------------------------------------------------------- Context

\* IIOContext::get(): the first call constructs the singleton, whose
\* IIOContextRaw opens the local context or throws; later calls return it.
ContextGet ==
    /\ ~crashed
    /\ ctxObj \in {"none", "alive"}
    /\ IF ctxObj = "alive"
       THEN /\ last' = Call("get", "none", Null, Null, 0, Null, FALSE)
            /\ UNCHANGED <<ctxObj, rawCtx, useCount, ctxOpens>>
       ELSE \E opened \in BOOLEAN :
              IF opened
              THEN /\ ctxObj' = "alive"
                   /\ rawCtx' = "open"
                   /\ ctxOpens' = ctxOpens + 1
                   /\ useCount' = 1
                   /\ last' = Call("get", "none", Null, Null, 0, Null, FALSE)
              ELSE /\ last' = Call("get", "SystemError", Null, Null, -1, Null, FALSE)
                   /\ UNCHANGED <<ctxObj, rawCtx, useCount, ctxOpens>>
    /\ UNCHANGED <<ctxDestroys, objs, region, regionDev, releases, trig, setTo, crashed>>

\* IIOContext::devices(): one Device per device of the context, each with a
\* copy of the Context's shared handle.
ContextDevices ==
    /\ ~crashed
    /\ ctxObj = "alive"
    /\ Room >= NumDevices
    /\ objs' = objs (+) SetToBag({Obj("Device", TRUE, d) : d \in Devices})
    /\ useCount' = CopyCtxN(TRUE, useCount, NumDevices)
    /\ last' = Call("devices", "none", Null, Null, 0, Null, FALSE)
    /\ UNCHANGED <<ctxObj, rawCtx, ctxOpens, ctxDestroys, region, regionDev,
                   releases, trig, setTo, crashed>>

\* Process teardown: the SingletonHolder deletes the IIOContext, which drops
\* its shared handle.
ContextDestroy ==
    /\ ~crashed
    /\ ctxObj = "alive"
    /\ ctxObj' = "destroyed"
    /\ DropCtx(TRUE, useCount)
    /\ last' = Call("~IIOContext", "none", Null, Null, 0, Null, FALSE)
    /\ UNCHANGED <<ctxOpens, objs, region, regionDev, releases, trig, setTo, crashed>>

\* -------------------------------------------------------------- Device

\* IIODevice::channels(): one Channel per channel of the device, each with a
\* copy of the Device's shared handle.
DeviceChannels(o) ==
    /\ ~crashed
    /\ o.kind = "Device"
    /\ Room >= NumChannels
    /\ objs' = objs (+) SetToBag({Obj("Channel", o.ctx, (o.h - 1) * NumChannels + i) :
                                    i \in 1..NumChannels})
    /\ useCount' = CopyCtxN(o.ctx, useCount, NumChannels)
    /\ last' = Call("channels", "none", Null, Null, 0, Null, FALSE)
    /\ UNCHANGED <<ctxObj, rawCtx, ctxOpens, ctxDestroys, region, regionDev,
                   releases, trig, setTo, crashed>>

\* IIOChannel::device(): a Device for the channel's device, with a copy of the
\* Channel's shared handle.
ChannelDevice(o) ==
    /\ ~crashed
    /\ o.kind = "Channel"
    /\ Room >= 1
    /\ objs' = objs (+) One(Obj("Device", o.ctx, DeviceOfChannel(o.h)))
    /\ useCount' = CopyCtx(o.ctx, useCount)
    /\ last' = Call("Channel.device", "none", Null, Null, 0, Null, FALSE)
    /\ UNCHANGED <<ctxObj, rawCtx, ctxOpens, ctxDestroys, region, regionDev,
                   releases, trig, setTo, crashed>>

\* The handle of the Device that trigger() returns: the one the driver reported.
TriggerResultSelf(self, t) == self

TriggerResult(self, t) == t

\* IIODevice::operator==: identity is the native handle.
DeviceEq(a, b) == a.h = b.h

\* IIODevice::trigger(): SystemError when the driver call fails, NotFound when
\* it reports no trigger, else a Device for the reported trigger.
DeviceTrigger(o) ==
    /\ ~crashed
    /\ o.kind = "Device"
    /\ \E code \in DrvCodes :
         LET t == trig[o.h]
         IN  IF code # 0
             THEN /\ last' = Call("trigger", "SystemError", o.h, Null, code, Null, FALSE)
                  /\ UNCHANGED <<objs, useCount>>
             ELSE IF t = Null
             THEN /\ last' = Call("trigger", "NotFound", o.h, Null, code, Null, FALSE)
                  /\ UNCHANGED <<objs, useCount>>
             ELSE /\ Room >= 1
                  /\ objs' = objs (+) One(Obj("Device", o.ctx, TriggerResult(o.h, t)))
                  /\ last' = Call("trigger", "none", o.h, Null, code,
                                  TriggerResult(o.h, t), FALSE)
                  /\ useCount' = CopyCtx(o.ctx, useCount)
    /\ UNCHANGED <<ctxObj, rawCtx, ctxOpens, ctxDestroys, region, regionDev,
                   releases, trig, setTo, crashed>>

\* iio_device_set_trigger(d, g) as called by setTrigger: the driver rejects
\* the call or records g as d's trigger. fromNull: g was read through a null
\* IIODevice pointer.
DriverSetTrigger(d, arg, g, code, fromNull) ==
    /\ last' = Call("setTrigger", IF code # 0 THEN "SystemError" ELSE "none",
                    d, arg, code, g, fromNull)
    /\ IF code # 0
       THEN UNCHANGED <<trig, setTo>>
       ELSE /\ trig' = [trig EXCEPT ![d] = g]
            /\ setTo' = [setTo EXCEPT ![d] = IF fromNull THEN Null ELSE g]
    /\ UNCHANGED crashed

\* IIODevice::setTrigger(trigger): reads trigger->device with no null check.
\* With a null argument the read is undefined: the process is aborted, or the
\* read yields some pointer value that is then passed to the driver.
DeviceSetTrigger(o, t) ==
    /\ ~crashed
    /\ o.kind = "Device"
    /\ t.kind \in {"Device", "nullptr"}
    /\ IF t = NullPtr
       THEN \/ /\ crashed' = TRUE
               /\ last' = Call("setTrigger", "abort", o.h, Null, 0, Null, TRUE)
               /\ UNCHANGED <<trig, setTo>>
            \/ \E g \in Devices \cup {Null}, code \in DrvCodes :
                 DriverSetTrigger(o.h, Null, g, code, TRUE)
       ELSE \E code \in DrvCodes :
              DriverSetTrigger(o.h, t.h, t.h, code, FALSE)
    /\ UNCHANGED <<ctxObj, rawCtx, useCount, ctxOpens, ctxDestroys, objs, region,
                   regionDev, releases>>

\* The error kind IIOBuffer's constructor raises when iio_device_create_buffer
\* returns null.
CreateBufferErrorUnavailable == "ResourceUnavailable"

CreateBufferError == "SystemError"

FreeRegions == {r \in Regions : region[r] = "free"}

\* IIODevice::createBuffer(): IIOBuffer's constructor copies the shared handle,
\* then asks the driver for a mapped region; when the driver returns null it
\* throws, and the copy of the shared handle is dropped with the unfinished
\* object.
DeviceCreateBuffer(o) ==
    /\ ~crashed
    /\ o.kind = "Device"
    /\ LET uc == CopyCtx(o.ctx, useCount)
       IN  \/ /\ FreeRegions # {}
              /\ Room >= 1
              /\ LET r == CHOOSE x \in FreeRegions : \A y \in FreeRegions : x <= y
                 IN  /\ region' = [region EXCEPT ![r] = "Created"]
                     /\ regionDev' = [regionDev EXCEPT ![r] = o.h]
                     /\ objs' = objs (+) One(Obj("Buffer", o.ctx, r))
                     /\ last' = Call("createBuffer", "none", Null, Null, 0, r, FALSE)
              /\ useCount' = uc
              /\ UNCHANGED <<rawCtx, ctxDestroys>>
           \/ /\ DropCtx(o.ctx, uc)
              /\ last' = Call("createBuffer", CreateBufferError, Null, Null, -1, Null, FALSE)
              /\ UNCHANGED <<region, regionDev, objs>>
    /\ UNCHANGED <<ctxObj, ctxOpens, releases, trig, setTo, crashed>>

\* -------------------------------------------------------------- Buffer

\* What IIOBuffer's move constructor leaves in its source: a null shared
\* handle (moved out) and a null buffer pointer.
MovedFromKeepsBuffer(b) == [b EXCEPT !.ctx = FALSE]

MovedFrom(b) == [b EXCEPT !.ctx = FALSE, !.h = Null]

\* IIOBuffer(IIOBuffer&&): the new Buffer takes the source's shared handle and
\* buffer pointer; the use count does not change.
BufferMove(o) ==
    /\ ~crashed
    /\ o.kind = "Buffer"
    /\ Room >= 1
    /\ objs' = ((objs (-) One(o)) (+) One(MovedFrom(o))) (+) One(o)
    /\ last' = Call("move", "none", Null, Null, 0, Null, FALSE)
    /\ UNCHANGED <<ctxObj, rawCtx, useCount, ctxOpens, ctxDestroys, region,
                   regionDev, releases, trig, setTo, crashed>>

\* A Buffer operation on a moved-from Buffer hands the driver a null buffer
\* pointer, which the driver dereferences: the process is aborted.
BufferUseAfterMove(o, op) ==
    /\ ~crashed
    /\ o.kind = "Buffer"
    /\ o.h = Null
    /\ crashed' = TRUE
    /\ last' = Call(op, "abort", Null, Null, 0, Null, TRUE)
    /\ UNCHANGED <<ctxObj, rawCtx, useCount, ctxOpens, ctxDestroys, objs, region,
                   regionDev, releases, trig, setTo>>

\* IIOBuffer::device(): a Device for the buffer's device, with a copy of the
\* Buffer's shared handle.
BufferDevice(o) ==
    /\ ~crashed
    /\ o.kind = "Buffer"
    /\ o.h # Null
    /\ Room >= 1
    /\ objs' = objs (+) One(Obj("Device", o.ctx, regionDev[o.h]))
    /\ last' = Call("Buffer.device", "none", Null, Null, 0, Null, FALSE)
    /\ useCount' = CopyCtx(o.ctx, useCount)
    /\ UNCHANGED <<ctxObj, rawCtx, ctxOpens, ctxDestroys, region, regionDev,
                   releases, trig, setTo, crashed>>

\* IIOBuffer::refill() and IIOBuffer::push(): one driver call; a negative
\* return raises SystemError and leaves the Buffer as it was.
BufferTransfer(o, op, after) ==
    /\ ~crashed
    /\ o.kind = "Buffer"
    /\ o.h # Null
    /\ \E code \in DrvCodes :
         IF code < 0
         THEN /\ last' = Call(op, "SystemError", o.h, Null, code, Null, FALSE)
              /\ UNCHANGED region
         ELSE /\ last' = Call(op, "none", o.h, Null, code, Null, FALSE)
              /\ region' = [region EXCEPT ![o.h] = after]
    /\ UNCHANGED <<ctxObj, rawCtx, useCount, ctxOpens, ctxDestroys, objs,
                   regionDev, releases, trig, setTo, crashed>>

BufferRefill(o) == BufferTransfer(o, "refill", "Populated")

BufferPush(o) == BufferTransfer(o, "push", "Drained")

\* ~IIOBuffer, ~IIODevice, ~IIOChannel: a Buffer that still has its buffer
\* pointer calls iio_buffer_destroy; then the ctx member is destroyed.
Destroy(o) ==
    /\ ~crashed
    /\ IF o.kind = "Buffer" /\ o.h # Null
       THEN /\ releases' = [releases EXCEPT ![o.h] = @ + 1]
            /\ region' = [region EXCEPT ![o.h] = "released"]
       ELSE UNCHANGED <<releases, region>>
    /\ DropCtx(o.ctx, useCount)
    /\ objs' = objs (-) One(o)
    /\ last' = Call("destroy", "none", Null, Null, 0, Null, FALSE)
    /\ UNCHANGED <<ctxObj, ctxOpens, regionDev, trig, setTo, crashed>>

\* The trigger associations the driver holds when the process starts: the
\* last device is the trigger of the first, the others have none.
BootTrig == [d \in Devices |-> IF d = 1 THEN NumDevices ELSE Null]

InitLife ==
    /\ ctxObj = "none" /\ rawCtx = "unopened" /\ useCount = 0
    /\ ctxOpens = 0 /\ ctxDestroys = 0
    /\ objs = EmptyBag
    /\ region = [r \in Regions |-> "free"]
    /\ regionDev = [r \in Regions |-> Null]
    /\ releases = [r \in Regions |-> 0]
    /\ trig = BootTrig
    /\ setTo = [d \in Devices |-> Null]
    /\ crashed = FALSE
    /\ last = NoCall

\* ---------------------------------------------------------- attributes

\* Attribute names the driver may report for an owner (a Device or a Channel).
NumNames == 3

Names == 1..NumNames

\* The driver's lists of attribute names: names are distinct.
NameLists ==
    {l \in UNION {[1..n -> Names] : n \in 0..NumNames} :
        \A i, j \in DOMAIN l : i # j => l[i] # l[j]}

VARIABLES
    attrNames,   \* the owner's attribute names, in the driver's order
    pc,          \* "idle", "loop" (inside a range-for over the collection),
                 \* "done" or "aborted"
    mode,        \* what the loop is: "iterate" (a full iteration) or "at"
    target,      \* the name at(name) looks for
    itIdx,       \* idx of the loop's iterator
    endIdx,      \* idx of the end() iterator taken when the loop started
    visited,     \* the names the loop body has seen, in order
    stable,      \* the attribute set has not changed since the loop started
    alast        \* the last dereference, or the end of the last loop

attrVars == <<attrNames, pc, mode, target, itIdx, endIdx, visited, stable, alast>>

\* What a dereference or a loop ended with: the error kind, the iterator's
\* idx and the attribute count at that time, the index passed to the
\* driver's name-at-index primitive (-1: not called), and the name pointer of
\* the Attribute obtained (Null: a null pointer).
ARes(op, err, idx, count, drvIdx, attr) ==
    [op |-> op, err |-> err, idx |-> idx, count |-> count, drvIdx |-> drvIdx,
     attr |-> attr]

\* iio_device_get_attr / iio_channel_get_attr: the name at an index, or a
\* null pointer for an index that is not below the count.
DriverGetAttr(names, idx) == IF idx < Len(names) THEN names[idx + 1] ELSE Null

\* The range check of IIOAttrs<T>::Iterator::operator*.
DerefOutOfRange(idx, count) == idx > count

\* IIOAttrs<T>::Iterator::operator*: RangeError when the range check fails,
\* else an Attribute for the name the driver gives at idx.
IteratorDeref(idx, names) ==
    IF DerefOutOfRange(idx, Len(names))
    THEN ARes("deref", "RangeError", idx, Len(names), -1, Null)
    ELSE ARes("deref", "none", idx, Len(names), idx, DriverGetAttr(names, idx))

\* Iterator::operator++.
IteratorNextSkips(idx) == idx + 2

IteratorNext(idx) == idx + 1

\* Iterator::operator== for two iterators over one owner.
IteratorEq(i, j) == i = j

\* IIOAttrs<T>::size().
AttrsSize(names) == Len(names)

\* A range-for over the collection starts: begin() is index 0, end() is
\* index size(), both taken once. at(name) is such a loop.
AttrsLoopStart(m, t) ==
    /\ pc \in {"idle", "done"}
    /\ pc' = "loop"
    /\ mode' = m
    /\ target' = t
    /\ itIdx' = 0
    /\ endIdx' = AttrsSize(attrNames)
    /\ visited' = <<>>
    /\ stable' = TRUE
    /\ alast' = ARes("none", "none", 0, 0, -1, Null)
    /\ UNCHANGED attrNames

\* One round of the loop: the test it != end, the dereference, the body
\* (which reads the Attribute's name()), and ++it. A full iteration ends when
\* it == end; at(name) returns the first Attribute whose name matches and
\* fails with RangeError when the loop ends without one. name() of an
\* Attribute with a null name pointer is undefined and aborts the loop.
AttrsLoopStep ==
    /\ pc = "loop"
    /\ IF IteratorEq(itIdx, endIdx)
       THEN /\ pc' = "done"
            /\ alast' = ARes(mode, IF mode = "at" THEN "RangeError" ELSE "none",
                             itIdx, Len(attrNames), -1, Null)
            /\ UNCHANGED <<itIdx, visited>>
       ELSE LET r == IteratorDeref(itIdx, attrNames)
            IN  IF r.err # "none"
                THEN /\ pc' = "done"
                     /\ alast' = r
                     /\ UNCHANGED <<itIdx, visited>>
                ELSE IF r.attr = Null
                THEN /\ pc' = "aborted"
                     /\ alast' = [r EXCEPT !.err = "undefined"]
                     /\ UNCHANGED <<itIdx, visited>>
                ELSE IF mode = "at" /\ r.attr = target
                THEN /\ pc' = "done"
                     /\ alast' = r
                     /\ visited' = Append(visited, r.attr)
                     /\ UNCHANGED itIdx
                ELSE /\ visited' = Append(visited, r.attr)
                     /\ itIdx' = IteratorNext(itIdx)
                     /\ alast' = r
                     /\ UNCHANGED pc
    /\ UNCHANGED <<attrNames, mode, target, endIdx, stable>>

\* Dereferencing an iterator outside a loop: any index reached by begin(),
\* end() and ++.
AttrsDeref(i) ==
    /\ pc \in {"idle", "done"}
    /\ pc' = "idle"
    /\ alast' = IteratorDeref(i, attrNames)
    /\ UNCHANGED <<attrNames, mode, target, itIdx, endIdx, visited, stable>>

\* The driver's attribute set changes under a running loop: an attribute
\* goes away or a new one appears.
DriverAttrsChange ==
    /\ pc = "loop"
    /\ \E l \in NameLists :
         /\ \/ \E i \in DOMAIN attrNames :
                 l = [j \in 1..(Len(attrNames) - 1) |->
                        IF j < i THEN attrNames[j] ELSE attrNames[j + 1]]
            \/ \E n \in Names : l = Append(attrNames, n)
         /\ attrNames' = l
    /\ stable' = FALSE
    /\ UNCHANGED <<pc, mode, target, itIdx, endIdx, visited, alast>>

\* ------------------------------------------------------ channel format

\* The widest sample format (iio_data_format.length, in bits) drawn.
MaxWidth == 40
\* The largest sample_count passed to read and write.
MaxSamples == 3

Widths == 0..MaxWidth

VARIABLES
    fmt,         \* the channel's data format as the driver reports it
    clast        \* the last Channel call: read, write or dtype

chanVars == <<fmt, clast>>

\* IIOChannel::read: the byte length passed to iio_channel_read. The bounds
\* keep the product far below 2^64, where size_t would wrap.
ReadLen(n, w) == n * w

\* IIOChannel::write: the byte length passed to iio_channel_write.
WriteLen(n, w) == n * (w \div 8)

\* A Pothos::DType: the element type's name and size in bytes, and the
\* dimension (elements per sample).
DTypeOf(name, bytes, dimension) == [name |-> name, bytes |-> bytes, dim |-> dimension]

\* The size in bytes of one element of a DType.
DTypeSize(t) == t.bytes * t.dim

\* IIOChannel::dtype() with the default case giving the width in bits.
ChannelDTypeBits(w, isSigned) ==
    CASE w = 8  -> IF isSigned THEN DTypeOf("int8", 1, 1) ELSE DTypeOf("uint8", 1, 1)
      [] w = 16 -> IF isSigned THEN DTypeOf("int16", 2, 1) ELSE DTypeOf("uint16", 2, 1)
      [] w = 32 -> IF isSigned THEN DTypeOf("int32", 4, 1) ELSE DTypeOf("uint32", 4, 1)
      [] w = 64 -> IF isSigned THEN DTypeOf("int64", 8, 1) ELSE DTypeOf("uint64", 8, 1)
      [] OTHER  -> DTypeOf("char", 1, w)

\* IIOChannel::dtype(): the switch over format->length.
ChannelDType(w, isSigned) ==
    CASE w = 8  -> IF isSigned THEN DTypeOf("int8", 1, 1) ELSE DTypeOf("uint8", 1, 1)
      [] w = 16 -> IF isSigned THEN DTypeOf("int16", 2, 1) ELSE DTypeOf("uint16", 2, 1)
      [] w = 32 -> IF isSigned THEN DTypeOf("int32", 4, 1) ELSE DTypeOf("uint32", 4, 1)
      [] w = 64 -> IF isSigned THEN DTypeOf("int64", 8, 1) ELSE DTypeOf("uint64", 8, 1)
      [] OTHER  -> DTypeOf("char", 1, w \div 8)

CRes(op, n, len, dtype) == [op |-> op, n |-> n, len |-> len, dtype |-> dtype]

NoDType == DTypeOf("none", 0, 0)

\* IIOChannel::read(buffer, dst, sample_count).
ChannelRead(n) ==
    /\ clast' = CRes("read", n, ReadLen(n, fmt.length), NoDType)
    /\ UNCHANGED fmt

\* IIOChannel::write(buffer, src, sample_count).
ChannelWrite(n) ==
    /\ clast' = CRes("write", n, WriteLen(n, fmt.length), NoDType)
    /\ UNCHANGED fmt

\* IIOChannel::dtype().
ChannelGetDType ==
    /\ clast' = CRes("dtype", 0, 0, ChannelDType(fmt.length, fmt.isSigned))
    /\ UNCHANGED fmt

InitChan ==
    /\ fmt \in [length : Widths \cup {64}, isSigned : BOOLEAN]
    /\ clast = CRes("none", 0, 0, NoDType)

\* ----------------------------------------------------- attribute value

\* sizeof(buf) in IIOAttr<T>::operator std::string.
BufSize == 1024
\* The longest short string written.
MaxShort == 2
\* How far around BufSize the lengths of the long strings written go.
MaxNear == 2

\* A byte of memory that was never written.
Uninit == -1

\* The strings written: bytes 1 and 2 alternate, with a null byte at
\* position z when z is a position of the string.
MkStr(n, z) == [i \in 1..n |-> IF i = z THEN 0 ELSE 1 + (i % 2)]

StrLens == (0..MaxShort) \cup ((BufSize - MaxNear)..(BufSize + MaxNear))

StrInputs == {MkStr(n, z) : n \in StrLens, z \in {0, 1, 2}}

VARIABLES
    stored,      \* the attribute's value as the driver holds it
    written,     \* the string of the latest assignment the driver accepted
    fresh,       \* the value was not changed since that assignment
    vlast        \* the last Attribute call: assignment or value()

valVars == <<stored, written, fresh, vlast>>

Min(a, b) == IF a < b THEN a ELSE b

\* std::string::c_str(): the driver sees the bytes before the first null byte.
CStr(v) ==
    LET Z == {i \in DOMAIN v : v[i] = 0}
    IN  IF Z = {} THEN v
        ELSE SubSeq(v, 1, (CHOOSE i \in Z : \A j \in Z : i <= j) - 1)

\* strnlen(buf, maxlen).
Strnlen(buf, maxlen) ==
    LET Z == {i \in 1..maxlen : buf[i] = 0}
    IN  IF Z = {} THEN maxlen
        ELSE (CHOOSE i \in Z : \A j \in Z : i <= j) - 1

\* The string value() builds from the scratch buffer and the driver's
\* return: std::string(buf, strnlen(buf, ret)).
ValueOfReadWhole(buf, ret) == SubSeq(buf, 1, ret)

ValueOfRead(buf, ret) == SubSeq(buf, 1, Strnlen(buf, ret))

\* iio_device_attr_read / iio_channel_attr_read into a buffer of cap bytes:
\* the driver copies the value and its terminating null byte, as many bytes
\* as fit, and returns the count. A driver that always terminates what it
\* returns overwrites the last byte copied with a null byte.
DriverAttrRead(s, cap, terminates) ==
    LET data == s \o <<0>>
        n    == Min(cap, Len(data))
    IN  [ret |-> n,
         buf |-> [i \in 1..cap |->
                    IF i > n THEN Uninit
                    ELSE IF terminates /\ i = n THEN 0
                    ELSE data[i]]]

VRes(op, err, drv, terminates, buf, ret) ==
    [op |-> op, err |-> err, drv |-> drv, terminates |-> terminates,
     buf |-> buf, ret |-> ret]

\* IIOAttr<T>::operator=(other): writes other.c_str(); a negative return
\* raises SystemError.
AttrAssign(v) ==
    \E code \in DrvCodes :
       IF code < 0
       THEN /\ vlast' = VRes("assign", "SystemError", code, FALSE, <<>>, <<>>)
            /\ UNCHANGED <<stored, written, fresh>>
       ELSE /\ stored' = CStr(v)
            /\ written' = v
            /\ fresh' = TRUE
            /\ vlast' = VRes("assign", "none", Len(CStr(v)), FALSE, <<>>, <<>>)

\* IIOAttr<T>::value() / operator std::string(): one driver read into the
\* fixed scratch buffer; a negative return raises SystemError.
AttrValue ==
    /\ \E failed \in BOOLEAN, terminates \in BOOLEAN :
         IF failed
         THEN vlast' = VRes("value", "SystemError", -1, FALSE, <<>>, <<>>)
         ELSE LET r == DriverAttrRead(stored, BufSize, terminates)
              IN  vlast' = VRes("value", "none", r.ret, terminates, r.buf,
                                ValueOfRead(r.buf, r.ret))
    /\ UNCHANGED <<stored, written, fresh>>

\* The attribute's value changes under the wrapper (the hardware, another
\* process).
DriverValueChange ==
    /\ \E n \in 0..MaxShort :
         /\ stored # MkStr(n, 0)
         /\ stored' = MkStr(n, 0)
    /\ fresh' = FALSE
    /\ UNCHANGED <<written, vlast>>

InitVal ==
    /\ stored = MkStr(1, 0)
    /\ written = <<>>
    /\ fresh = FALSE
    /\ vlast = VRes("none", "none", 0, FALSE, <<>>, <<>>)

\* ------------------------------------------------- the Context singleton

\* Threads of the process that call IIOContext::get().
NumThreads == 2
\* Calls of get() each thread makes.
MaxGets == 2

Threads == 1..NumThreads

VARIABLES
    tpc,         \* per thread, its position in get(): "idle", "lock", "check", "new", "return"
    mutex,       \* the SingletonHolder's mutex: the thread holding it, or Null
    pS,          \* the SingletonHolder's pointer: Null, or the IIOContext it holds
    opens,       \* calls of iio_create_local_context that returned a context
    got,         \* per thread: the IIOContext its last completed get() returned
    gerr,        \* per thread: the error kind its last completed get() raised
    gets,        \* per thread: calls of get() made
    devRaw,      \* the native contexts the Devices returned by devices() hold
    raced        \* a first call constructed the Context while another call waited

getVars == <<tpc, mutex, pS, opens, got, gerr, gets, devRaw, raced>>

\* Whether a thread can take the SingletonHolder's mutex (ScopedLock).
MutexFreeUnguarded(m) == TRUE

MutexFree(m) == m = Null

\* Leaving the scope of the ScopedLock, by return or by exception.
Unlock(t) == mutex' = IF mutex = t THEN Null ELSE mutex

\* A thread calls IIOContext::get() and reaches sh.get().
GetCall(t) ==
    /\ tpc[t] = "idle"
    /\ gets[t] < MaxGets
    /\ tpc' = [tpc EXCEPT ![t] = "lock"]
    /\ gets' = [gets EXCEPT ![t] = @ + 1]
    /\ UNCHANGED <<mutex, pS, opens, got, gerr, devRaw, raced>>

\* SingletonHolder::get(): take the mutex.
GetLock(t) ==
    /\ tpc[t] = "lock"
    /\ MutexFree(mutex)
    /\ mutex' = t
    /\ tpc' = [tpc EXCEPT ![t] = "check"]
    /\ UNCHANGED <<pS, opens, got, gerr, gets, devRaw, raced>>

\* SingletonHolder::get(): construct the object only when the pointer is null.
GetCheck(t) ==
    /\ tpc[t] = "check"
    /\ tpc' = [tpc EXCEPT ![t] = IF pS = Null THEN "new" ELSE "return"]
    /\ UNCHANGED <<mutex, pS, opens, got, gerr, gets, devRaw, raced>>

\* new IIOContext: IIOContextRaw's constructor opens the local context, or
\* throws SystemException when the driver returns null; the exception leaves
\* get() with the pointer still null. The k-th context the driver opens is k.
GetNew(t) ==
    /\ tpc[t] = "new"
    /\ \E opened \in BOOLEAN :
         IF opened
         THEN /\ opens' = opens + 1
              /\ pS' = opens + 1
              /\ tpc' = [tpc EXCEPT ![t] = "return"]
              /\ raced' = (raced \/ \E u \in Threads \ {t} : tpc[u] = "lock")
              /\ UNCHANGED <<mutex, gerr>>
         ELSE /\ Unlock(t)
              /\ tpc' = [tpc EXCEPT ![t] = "idle"]
              /\ gerr' = [gerr EXCEPT ![t] = "SystemError"]
              /\ UNCHANGED <<opens, pS, raced>>
    /\ UNCHANGED <<got, gets, devRaw>>

\* SingletonHolder::get() returns the pointer; IIOContext::get() returns the
\* object it points to.
GetReturn(t) ==
    /\ tpc[t] = "return"
    /\ Unlock(t)
    /\ got' = [got EXCEPT ![t] = pS]
    /\ gerr' = [gerr EXCEPT ![t] = "none"]
    /\ tpc' = [tpc EXCEPT ![t] = "idle"]
    /\ UNCHANGED <<pS, opens, gets, devRaw, raced>>

\* devices() on the Context a thread got: every Device copies that Context's
\* shared handle, and so holds that Context's native context.
GetDevices(t) ==
    /\ tpc[t] = "idle"
    /\ got[t] # Null
    /\ devRaw' = devRaw \cup {got[t]}
    /\ UNCHANGED <<tpc, mutex, pS, opens, got, gerr, gets, raced>>

\* No thread has called get().
GetIdle ==
    /\ tpc = [t \in Threads |-> "idle"]
    /\ mutex = Null
    /\ pS = Null
    /\ opens = 0
    /\ got = [t \in Threads |-> Null]
    /\ gerr = [t \in Threads |-> "none"]
    /\ gets = [t \in Threads |-> 0]
    /\ devRaw = {}
    /\ raced = FALSE

\* ------------------------------------------- Buffer operations that fail

VARIABLES
    drvCalls,    \* driver calls the last Buffer operation made
    failedOn     \* the native buffer of the latest Buffer operation, when it failed

bufVars == <<drvCalls, failedOn>>

\* The Buffer operations that make a driver call that can report failure.
BufferOps == {"refill", "push", "setBlockingMode", "fd"}

\* The driver calls a Buffer operation makes when the driver returns code:
\* the call is made once and its failure is thrown, not retried.
DriverCallsRetried(code) == IF code < 0 THEN 2 ELSE 1

DriverCalls(code) == 1

\* IIOBuffer::fd(): one driver call; a negative return raises SystemError.
BufferFd(o) == BufferTransfer(o, "fd", region[o.h])

\* IIOBuffer::setBlockingMode(): one driver call; a non-zero return raises
\* SystemError.
BufferSetBlockingMode(o) == BufferTransfer(o, "setBlockingMode", region[o.h])

\* A Buffer operation, with the driver calls it made and, when it failed, the
\* buffer it was called on.
BufferOp(o, op) ==
    /\ CASE op = "refill" -> BufferRefill(o)
         [] op = "push" -> BufferPush(o)
         [] op = "fd" -> BufferFd(o)
         [] op = "setBlockingMode" -> BufferSetBlockingMode(o)
    /\ drvCalls' = DriverCalls(last'.drv)
    /\ failedOn' = IF last'.drv < 0 THEN o.h ELSE Null

\* No Buffer operation has been called.
BufIdle == drvCalls = 0 /\ failedOn = Null

\* ------------------------------------------------------ specifications

vars == <<lifeVars, attrVars, chanVars, valVars, getVars, bufVars>>

\* The attribute collection at rest.
AttrRest ==
    /\ pc = "idle"
    /\ mode = "iterate"
    /\ target = 1
    /\ itIdx = 0
    /\ endIdx = 0
    /\ visited = <<>>
    /\ stable = TRUE
    /\ alast = ARes("none", "none", 0, 0, -1, Null)

InitAttrs == attrNames \in NameLists /\ AttrRest

AttrIdle == attrNames = <<>> /\ AttrRest

ChanIdle ==
    /\ fmt = [length |-> 8, isSigned |-> FALSE]
    /\ clast = CRes("none", 0, 0, NoDType)

\* The object graph: Context, Device, Channel and Buffer objects created,
\* moved and destroyed.
NextLife ==
    \/ ContextGet /\ UNCHANGED <<attrVars, chanVars, valVars, getVars, bufVars>>
    \/ ContextDevices /\ UNCHANGED <<attrVars, chanVars, valVars, getVars, bufVars>>
    \/ ContextDestroy /\ UNCHANGED <<attrVars, chanVars, valVars, getVars, bufVars>>
    \/ \E o \in Held : DeviceChannels(o) /\ UNCHANGED <<attrVars, chanVars, valVars, getVars, bufVars>>
    \/ \E o \in Held : ChannelDevice(o) /\ UNCHANGED <<attrVars, chanVars, valVars, getVars, bufVars>>
    \/ \E o \in Held : DeviceTrigger(o) /\ UNCHANGED <<attrVars, chanVars, valVars, getVars, bufVars>>
    \/ \E o \in Held : DeviceCreateBuffer(o) /\ UNCHANGED <<attrVars, chanVars, valVars, getVars, bufVars>>
    \/ \E o \in Held : BufferMove(o) /\ UNCHANGED <<attrVars, chanVars, valVars, getVars, bufVars>>
    \/ \E o \in Held, op \in {"Buffer.device", "refill", "push"} :
         BufferUseAfterMove(o, op) /\ UNCHANGED <<attrVars, chanVars, valVars, getVars, bufVars>>
    \/ \E o \in Held : BufferDevice(o) /\ UNCHANGED <<attrVars, chanVars, valVars, getVars, bufVars>>
    \/ \E o \in Held : BufferRefill(o) /\ UNCHANGED <<attrVars, chanVars, valVars, getVars, bufVars>>
    \/ \E o \in Held : BufferPush(o) /\ UNCHANGED <<attrVars, chanVars, valVars, getVars, bufVars>>
    \/ \E o \in Held : Destroy(o) /\ UNCHANGED <<attrVars, chanVars, valVars, getVars, bufVars>>

Init == InitLife /\ AttrIdle /\ ChanIdle /\ InitVal /\ GetIdle /\ BufIdle

Spec == Init /\ [][NextLife]_vars

\* The trigger operations on the devices of an opened context.
NextTrig ==
    \/ ContextGet /\ UNCHANGED <<attrVars, chanVars, valVars, getVars, bufVars>>
    \/ ContextDevices /\ UNCHANGED <<attrVars, chanVars, valVars, getVars, bufVars>>
    \/ \E o \in Held : DeviceTrigger(o) /\ UNCHANGED <<attrVars, chanVars, valVars, getVars, bufVars>>
    \/ \E o \in Held, t \in Held \cup {NullPtr} :
         DeviceSetTrigger(o, t) /\ UNCHANGED <<attrVars, chanVars, valVars, getVars, bufVars>>
    \/ \E o \in Held : Destroy(o) /\ UNCHANGED <<attrVars, chanVars, valVars, getVars, bufVars>>

InitTrig == InitLife /\ AttrIdle /\ ChanIdle /\ InitVal /\ GetIdle /\ BufIdle

SpecTrig == InitTrig /\ [][NextTrig]_vars

\* Loops over an attribute collection, dereferences, and the driver's
\* attribute set changing under them.
NextAttr ==
    \/ AttrsLoopStart("iterate", 1) /\ UNCHANGED <<lifeVars, chanVars, valVars, getVars, bufVars>>
    \/ \E t \in Names : AttrsLoopStart("at", t) /\ UNCHANGED <<lifeVars, chanVars, valVars, getVars, bufVars>>
    \/ AttrsLoopStep /\ UNCHANGED <<lifeVars, chanVars, valVars, getVars, bufVars>>
    \/ \E i \in 0..(NumNames + 1) : AttrsDeref(i) /\ UNCHANGED <<lifeVars, chanVars, valVars, getVars, bufVars>>
    \/ DriverAttrsChange /\ UNCHANGED <<lifeVars, chanVars, valVars, getVars, bufVars>>

InitAttr == InitLife /\ InitAttrs /\ ChanIdle /\ InitVal /\ GetIdle /\ BufIdle

SpecAttr == InitAttr /\ [][NextAttr]_vars

\* Channel transfers and dtype() for every format drawn.
NextChan ==
    \/ \E n \in 0..MaxSamples : ChannelRead(n) /\ UNCHANGED <<lifeVars, attrVars, valVars, getVars, bufVars>>
    \/ \E n \in 0..MaxSamples : ChannelWrite(n) /\ UNCHANGED <<lifeVars, attrVars, valVars, getVars, bufVars>>
    \/ ChannelGetDType /\ UNCHANGED <<lifeVars, attrVars, valVars, getVars, bufVars>>

InitFormats == InitLife /\ AttrIdle /\ InitChan /\ InitVal /\ GetIdle /\ BufIdle

SpecChan == InitFormats /\ [][NextChan]_vars

\* Assignments to and reads of one attribute's value.
NextVal ==
    \/ \E v \in StrInputs : AttrAssign(v) /\ UNCHANGED <<lifeVars, attrVars, chanVars, getVars, bufVars>>
    \/ AttrValue /\ UNCHANGED <<lifeVars, attrVars, chanVars, getVars, bufVars>>
    \/ DriverValueChange /\ UNCHANGED <<lifeVars, attrVars, chanVars, getVars, bufVars>>

InitValue == InitLife /\ AttrIdle /\ ChanIdle /\ InitVal /\ GetIdle /\ BufIdle

SpecVal == InitValue /\ [][NextVal]_vars

\* Threads calling get(), each step of SingletonHolder::get() interleaved,
\* and devices() on the Context a call returned.
NextGet ==
    \/ \E t \in Threads : GetCall(t) /\ UNCHANGED <<lifeVars, attrVars, chanVars, valVars, bufVars>>
    \/ \E t \in Threads : GetLock(t) /\ UNCHANGED <<lifeVars, attrVars, chanVars, valVars, bufVars>>
    \/ \E t \in Threads : GetCheck(t) /\ UNCHANGED <<lifeVars, attrVars, chanVars, valVars, bufVars>>
    \/ \E t \in Threads : GetNew(t) /\ UNCHANGED <<lifeVars, attrVars, chanVars, valVars, bufVars>>
    \/ \E t \in Threads : GetReturn(t) /\ UNCHANGED <<lifeVars, attrVars, chanVars, valVars, bufVars>>
    \/ \E t \in Threads : GetDevices(t) /\ UNCHANGED <<lifeVars, attrVars, chanVars, valVars, bufVars>>

InitGet == InitLife /\ AttrIdle /\ ChanIdle /\ InitVal /\ GetIdle /\ BufIdle

SpecGet == InitGet /\ [][NextGet]_vars

\* Buffers created, moved, operated on with the driver failing or not, and
\* destroyed.
NextBuf ==
    \/ ContextGet /\ UNCHANGED <<attrVars, chanVars, valVars, getVars, bufVars>>
    \/ ContextDevices /\ UNCHANGED <<attrVars, chanVars, valVars, getVars, bufVars>>
    \/ ContextDestroy /\ UNCHANGED <<attrVars, chanVars, valVars, getVars, bufVars>>
    \/ \E o \in Held : DeviceCreateBuffer(o) /\ UNCHANGED <<attrVars, chanVars, valVars, getVars, bufVars>>
    \/ \E o \in Held : BufferMove(o) /\ UNCHANGED <<attrVars, chanVars, valVars, getVars, bufVars>>
    \/ \E o \in Held, op \in BufferOps :
         BufferOp(o, op) /\ UNCHANGED <<attrVars, chanVars, valVars, getVars>>
    \/ \E o \in Held : Destroy(o) /\ UNCHANGED <<attrVars, chanVars, valVars, getVars, bufVars>>

InitBuf == InitLife /\ AttrIdle /\ ChanIdle /\ InitVal /\ GetIdle /\ BufIdle

SpecBuf == InitBuf /\ [][NextBuf]_vars

\* ------------------------------------------------------ lifetime claims

\* An object that can still be used: a Device, a Channel, or a Buffer that
\* was not moved from.
Usable(o) == o.kind \in {"Device", "Channel"} \/ (o.kind = "Buffer" /\ o.h # Null)

\* C1: the native context is never destroyed while a usable Device, Channel or
\* Buffer exists, and it is destroyed exactly once, when the last holder (the
\* Context or a usable object) is gone.
C1_ContextOutlivesObjects ==
    /\ \A o \in Held : Usable(o) => rawCtx = "open"
    /\ ctxObj = "alive" => rawCtx = "open"
    /\ ctxDestroys = IF /\ ctxOpens > 0
                        /\ ctxObj # "alive"
                        /\ \A o \in Held : ~Usable(o)
                     THEN 1 ELSE 0
    /\ (rawCtx = "destroyed") <=> (ctxDestroys = 1)

\* C1, its case: the Context was torn down first, and destroying the last
\* object destroyed the native context.
C1_Witness ==
    /\ ctxObj = "destroyed"
    /\ last.op = "destroy"
    /\ ctxDestroys = 1

\* The Buffer objects whose buffer pointer is the region r.
Owners(r) ==
    LET own == {o \in Held : o.kind = "Buffer" /\ o.h = r}
    IN  IF own = {} THEN 0
        ELSE BagCardinality([o \in own |-> CopiesIn(o, objs)])

\* C2: a mapped region has exactly one owning Buffer at a time and is released
\* (iio_buffer_destroy) exactly once, when its owner is destroyed, whatever
\* state it is in; a moved-from Buffer owns nothing and releases nothing.
C2_RegionReleasedOnce ==
    \A r \in Regions :
        /\ Owners(r) <= 1
        /\ releases[r] <= 1
        /\ (region[r] \in {"Created", "Populated", "Drained"}) <=> (Owners(r) = 1)
        /\ (region[r] = "released") <=> (releases[r] = 1)

\* C2, its case: a Buffer was moved, its new owner was destroyed after a
\* refill or push round, and the moved-from Buffer is still held.
C2_Witness ==
    /\ \E r \in Regions : releases[r] = 1
    /\ \E o \in Held : o.kind = "Buffer" /\ o.h = Null
    /\ \E r \in Regions : region[r] \in {"Populated", "Drained"}

\* C6 as amended: when the driver returns no buffer, createBuffer fails with
\* SystemError and hands no Buffer to the caller.
C6_CreateBufferFailsSystemError ==
    (last.op = "createBuffer" /\ last.drv < 0) =>
        /\ last.err = "SystemError"
        /\ last.ret = Null

\* C6 as stated: the failure is of the kind ResourceUnavailable.
C6_CreateBufferFailsUnavailable ==
    (last.op = "createBuffer" /\ last.drv < 0) =>
        /\ last.err = "ResourceUnavailable"
        /\ last.ret = Null

\* C6, its case: a createBuffer call for which the driver returned no buffer.
C6_Witness == last.op = "createBuffer" /\ last.drv < 0

\* ------------------------------------------------------- trigger claims

\* C4 as stated: setTrigger with a null argument reads no field of the
\* argument, completes or fails with SystemError, and when it completes the
\* device has no trigger.
C4_SetTriggerNullClears ==
    (last.op = "setTrigger" /\ last.arg = Null) =>
        /\ ~last.ub
        /\ last.err \in {"none", "SystemError"}
        /\ last.err = "none" => trig[last.self] = Null

\* C5: trigger() fails with SystemError when the driver call fails, with
\* NotFound when the call succeeds and reports no trigger, and after an
\* accepted setTrigger(T) on the device returns a Device equal to T.
C5_TriggerOutcome ==
    last.op = "trigger" =>
        /\ last.drv # 0 => last.err = "SystemError"
        /\ (last.drv = 0 /\ trig[last.self] = Null) => last.err = "NotFound"
        /\ (last.drv = 0 /\ setTo[last.self] # Null) =>
              /\ last.err = "none"
              /\ DeviceEq(Obj("Device", TRUE, last.ret),
                          Obj("Device", TRUE, setTo[last.self]))

\* C5, its case: trigger() returned after setTrigger(T) with T another device.
C5_Witness ==
    /\ last.op = "trigger"
    /\ last.err = "none"
    /\ setTo[last.self] # Null
    /\ setTo[last.self] # last.self


\* ----------------------------------------------------- attribute claims

\* C3 as stated: a dereference at an index not below the attribute count
\* fails with RangeError, and the driver's name-at-index primitive is only
\* called with an index below the count.
C3_DerefRangeChecked ==
    alast.op = "deref" =>
        /\ alast.idx >= alast.count => alast.err = "RangeError"
        /\ alast.drvIdx # -1 => alast.drvIdx \in 0..(alast.count - 1)

\* The names in a list.
NamesOf(l) == {l[i] : i \in DOMAIN l}

\* C8: while the attribute set does not change, a loop from begin() to end()
\* visits the attributes in the driver's order, each once, raises no error
\* and ends after size() of them; at(name) returns the Attribute of that name
\* when the owner has it and fails with RangeError when it has not.
C8_FullIteration ==
    (pc \in {"loop", "done", "aborted"} /\ stable) =>
        /\ pc # "aborted"
        /\ visited = SubSeq(attrNames, 1, Len(visited))
        /\ pc = "loop" => (itIdx = Len(visited) /\ itIdx <= AttrsSize(attrNames))
        /\ (pc = "done" /\ mode = "iterate") =>
              /\ alast.err = "none"
              /\ Len(visited) = AttrsSize(attrNames)
        /\ (pc = "done" /\ mode = "at") =>
              IF target \in NamesOf(attrNames)
              THEN alast.err = "none" /\ alast.attr = target
              ELSE alast.err = "RangeError"

\* C8, its case: a full iteration over three attributes has ended with the
\* attribute set unchanged.
C8_Witness ==
    /\ pc = "done"
    /\ mode = "iterate"
    /\ stable
    /\ Len(attrNames) >= 2
    /\ Len(visited) = Len(attrNames)

\* ------------------------------------------------------- channel claims

\* C7 as stated: read and write each pass sampleCount times the element byte
\* width (bit width / 8) to the driver.
C7_TransferLenInBytes ==
    clast.op \in {"read", "write"} => clast.len = clast.n * (fmt.length \div 8)

Canonical == {8, 16, 32, 64}

SignedNames == {"int8", "int16", "int32", "int64"}

UnsignedNames == {"uint8", "uint16", "uint32", "uint64"}

\* The bytes a sample of w bits occupies.
SampleBytes(w) == (w + 7) \div 8

\* C9 as amended: dtype() maps the widths 8, 16, 32, 64 with their signedness
\* to eight distinct integer types of that width and signedness, and every
\* other width w to a char type of w / 8 (rounded down) elements, which is
\* the sample's byte size when w is a multiple of 8.
C9_DTypeMapping ==
    clast.op = "dtype" =>
        LET w == fmt.length
            t == clast.dtype
        IN  /\ w \in Canonical =>
                 /\ t.name \in (IF fmt.isSigned THEN SignedNames ELSE UnsignedNames)
                 /\ t.dim = 1
                 /\ DTypeSize(t) * 8 = w
                 /\ \A w2 \in Canonical, s2 \in BOOLEAN :
                       (w2 # w \/ s2 # fmt.isSigned) => ChannelDType(w2, s2) # t
            /\ w \notin Canonical =>
                 /\ t.name = "char"
                 /\ DTypeSize(t) = w \div 8
                 /\ w % 8 = 0 => DTypeSize(t) = SampleBytes(w)

\* C9 as stated: for every width other than 8, 16, 32, 64 the type's size is
\* the sample's byte size.
C9_OpaqueSizeIsSampleSize ==
    (clast.op = "dtype" /\ fmt.length \notin Canonical) =>
        /\ clast.dtype.name = "char"
        /\ DTypeSize(clast.dtype) = SampleBytes(fmt.length)

\* C9, its case: dtype() of a 24-bit format.
C9_Witness == clast.op = "dtype" /\ fmt.length = 24

\* ---------------------------------------------------- value round trip

\* The bytes of buf before its first null byte.
FirstNul(buf) ==
    LET Z == {i \in DOMAIN buf : buf[i] = 0}
    IN  IF Z = {} THEN Len(buf) ELSE (CHOOSE i \in Z : \A j \in Z : i <= j) - 1

\* C10 as amended: value() fails with SystemError on a negative driver
\* return; else its result is the buffer cut at the first null byte or the
\* returned count, whichever comes first. Read right after an accepted
\* assignment of v it is v up to v's first null byte when that is shorter
\* than the capacity, and else its first 1024 bytes, or 1023 when the driver
\* ends what it returns with a null byte.
C10_RoundTrip ==
    vlast.op = "value" =>
        /\ vlast.drv < 0 => (vlast.err = "SystemError" /\ vlast.ret = <<>>)
        /\ vlast.drv >= 0 =>
              /\ vlast.err = "none"
              /\ vlast.ret = SubSeq(vlast.buf, 1, Min(FirstNul(vlast.buf), vlast.drv))
              /\ fresh =>
                   LET c == CStr(written)
                   IN  IF Len(c) < BufSize
                       THEN vlast.ret = c
                       ELSE vlast.ret = SubSeq(c, 1, IF vlast.terminates
                                                     THEN BufSize - 1 ELSE BufSize)

\* C10 as stated: the value read back is v when v fits the capacity and v's
\* first 1024 bytes when it does not.
C10_ReadsBackWritten ==
    (vlast.op = "value" /\ vlast.drv >= 0 /\ fresh) =>
        vlast.ret = IF Len(written) <= BufSize THEN written
                    ELSE SubSeq(written, 1, BufSize)

\* C10, its case: a value longer than the capacity was written and read back.
C10_Witness ==
    /\ vlast.op = "value"
    /\ vlast.err = "none"
    /\ fresh
    /\ Len(CStr(written)) > BufSize

\* -------------------------------------------------- singleton claims

\* C11: every completed get() returns the one Context the SingletonHolder
\* holds, the native context is opened at most once however the calls of the
\* threads interleave, and every Device returned by devices() holds that one
\* native context.
C11_SingleContext ==
    /\ opens <= 1
    /\ \A t \in Threads : got[t] # Null => got[t] = pS
    /\ \A t, u \in Threads : (got[t] # Null /\ got[u] # Null) => got[t] = got[u]
    /\ \A r \in devRaw : r = pS /\ r = opens

\* C11, its case: a first call constructed the Context while another thread's
\* call waited, every thread's get() has returned, and devices() was called.
C11_Witness ==
    /\ raced
    /\ \A t \in Threads : got[t] # Null /\ tpc[t] = "idle"
    /\ devRaw # {}

\* ------------------------------------------------ failed operation claims

\* A step that is a Buffer operation the driver failed, or a createBuffer the
\* driver failed, or a step after the latest Buffer operation failed.
C12_FailedStep ==
    /\ (last'.op \in BufferOps /\ last'.drv < 0) =>
          /\ last'.err = "SystemError"
          /\ drvCalls' = 1
          /\ objs' = objs
          /\ region' = region
          /\ releases' = releases
          /\ useCount' = useCount
          /\ rawCtx' = rawCtx
    /\ (last'.op = "createBuffer" /\ last'.drv < 0) =>
          /\ useCount' = useCount
          /\ objs' = objs
    /\ \A r \in {failedOn} \ {Null} :
          /\ releases'[r] # releases[r] => (last'.op = "destroy" /\ releases'[r] = 1)
          /\ Owners(r)' + releases'[r] = 1

\* C12: a refill, push, setBlockingMode or fd whose driver call fails raises
\* SystemError after one driver call and changes neither the Buffer, its
\* region nor the holders of the shared context handle; the region of such a
\* Buffer keeps one owner until that owner is destroyed, which releases it
\* once; a failed createBuffer leaves the holders of the shared context handle
\* and the objects held as they were.
C12_FailedOpKeepsBuffer == [][C12_FailedStep]_vars

\* C12, its case: an operation failed on a Buffer, no operation succeeded
\* since, and the Buffer was then destroyed, releasing its region.
C12_Witness ==
    /\ last.op = "destroy"
    /\ failedOn # Null
    /\ releases[failedOn] = 1

====
